---------------------------- MODULE Spec2Model ----------------------------
(***************************************************************************)
(* A model of Hdl21's Module container (src/hdl21/module.py) and of its    *)
(* Slice resolution (src/hdl21/slice.py).                                  *)
(*                                                                         *)
(* Python values are tagged records: the field t holds the Python type.    *)
(* Python strings are sequences of one-character strings, so that          *)
(* str.startswith, str.join and hash are computed and not assumed.         *)
(***************************************************************************)
EXTENDS Integers, Sequences, FiniteSets, TLC

VARIABLES
    name,          \* Module.name                        (per Module)
    ports,         \* Module.ports                       (per Module)
    signals,       \* Module.signals
    instances,     \* Module.instances
    instarrays,    \* Module.instarrays
    instbundles,   \* Module.instbundles
    bundles,       \* Module.bundles
    namespace,     \* Module.namespace
    importpath,    \* Module._importpath
    pymodule,      \* Module._source_info.pymodule.__name__ (None: no pymodule)
    valname,       \* val.name of every constructed ModuleAttr object
    parent_module, \* val._parent_module of every constructed object
    parent_width,  \* Slice.parent.width
    index,         \* Slice.index
    inner,         \* Slice._inner
    last           \* the last call made: its arguments, what it raised, what it returned

vars == <<name, ports, signals, instances, instarrays, instbundles, bundles,
          namespace, importpath, pymodule, valname, parent_module,
          parent_width, index, inner, last>>

moduleVars == <<name, ports, signals, instances, instarrays, instbundles, bundles,
                namespace, importpath, pymodule, valname, parent_module>>

sliceVars == <<parent_width, index, inner>>

-----------------------------------------------------------------------------
(* Bounds *)

\* Number of ModuleAttr objects constructed before the Module is populated
MaxObjs == 2
\* Largest parent width a Slice is taken of
MaxWidth == 8
\* Largest magnitude of an integer index, or of a range's start and stop
MaxIndex == 9
\* Largest magnitude of a range's step
MaxStep == 3

-----------------------------------------------------------------------------
(* Python values *)

None == [t |-> "NoneType"]
PyInt(i) == [t |-> "int", v |-> i]
PyStr(s) == [t |-> "str", s |-> s]
PyList(l) == [t |-> "list", l |-> l]
PySlice(start, stop, step) == [t |-> "slice", start |-> start, stop |-> stop, step |-> step]

\* A call's outcome: the exception it raised (None when it returned) and what it returned
Raise(e) == [exc |-> [t |-> e], ret |-> None]
Return(r) == [exc |-> None, ret |-> r]

abs(x) == IF x < 0 THEN -x ELSE x

-----------------------------------------------------------------------------
(* slice.py *)

SliceInner(top, bot, step, width) == [top |-> top, bot |-> bot, step |-> step, width |-> width]

\* IntInner with the bound test off by one: `index > parent.width`
IntInner_BoundOffByOne(w, idx) ==
    IF idx > w
    THEN Raise("ValueError")
    ELSE LET i == IF idx < 0 THEN idx + w ELSE idx
         IN  Return(SliceInner(i + 1, i, None, 1))

\* `_slice_inner` on an `int` index
IntInner(w, idx) ==
    IF idx >= w
    THEN Raise("ValueError")
    ELSE LET i == IF idx < 0 THEN idx + w ELSE idx
         IN  Return(SliceInner(i + 1, i, None, 1))

\* RangeInner without the "+1" that makes a negative step's `start` inclusive
RangeInner_StartNotInclusive(w, idx) ==
    LET start == idx.start
        stop == idx.stop
        step == idx.step
        stepsz == IF step = None THEN 1 ELSE step.v
    IN  IF stepsz = 0
        THEN Raise("ValueError")
        ELSE IF stepsz < 0
        THEN LET top == IF start = None THEN w
                        ELSE IF start.v >= 0 THEN start.v
                        ELSE w + start.v
                 bot == IF stop = None THEN 0
                        ELSE IF stop.v >= 0 THEN stop.v + 1
                        ELSE w + stop.v + 1
                 bot2 == bot + ((top - bot) % abs(stepsz))
             IN  Return(SliceInner(top, bot2, step, (top - bot2) \div stepsz))
        ELSE LET top == IF stop = None THEN w
                        ELSE IF stop.v >= 0 THEN stop.v
                        ELSE w + stop.v
                 bot == IF start = None THEN 0
                        ELSE IF start.v >= 0 THEN start.v
                        ELSE w + start.v
                 top2 == top - ((top - bot) % stepsz)
             IN  Return(SliceInner(top2, bot, step, (top2 - bot) \div stepsz))

\* `_slice_inner` on a `slice` index
RangeInner(w, idx) ==
    LET start == idx.start
        stop == idx.stop
        step == idx.step
        stepsz == IF step = None THEN 1 ELSE step.v
    IN  IF stepsz = 0
        THEN Raise("ValueError")
        ELSE IF stepsz < 0
        THEN LET top == IF start = None THEN w
                        ELSE IF start.v >= 0 THEN start.v + 1
                        ELSE w + start.v + 1
                 bot == IF stop = None THEN 0
                        ELSE IF stop.v >= 0 THEN stop.v + 1
                        ELSE w + stop.v + 1
                 bot2 == bot + ((top - bot) % abs(stepsz))
             IN  Return(SliceInner(top, bot2, step, (top - bot2) \div stepsz))
        ELSE LET top == IF stop = None THEN w
                        ELSE IF stop.v >= 0 THEN stop.v
                        ELSE w + stop.v
                 bot == IF start = None THEN 0
                        ELSE IF start.v >= 0 THEN start.v
                        ELSE w + start.v
                 top2 == top - ((top - bot) % stepsz)
             IN  Return(SliceInner(top2, bot, step, (top2 - bot) \div stepsz))

\* `_slice_inner`, as a function of the parent's width and the index
_slice_inner(w, idx) ==
    IF idx.t = "int" THEN IntInner(w, idx.v)
    ELSE IF idx.t = "slice" THEN RangeInner(w, idx)
    ELSE Raise("RuntimeError")

\* `_get_inner` without the `if self._inner is None` test: every access resolves anew
_get_inner_Recomputes ==
    LET r == _slice_inner(parent_width, index)
    IN  IF r.exc = None THEN [out |-> r, inner |-> r.ret]
                        ELSE [out |-> r, inner |-> inner]

\* `_get_inner`: the outcome of the call, and the `_inner` it leaves behind
_get_inner ==
    IF inner = None
    THEN LET r == _slice_inner(parent_width, index)
         IN  IF r.exc = None THEN [out |-> r, inner |-> r.ret]
                             ELSE [out |-> r, inner |-> inner]
    ELSE [out |-> Return(inner), inner |-> inner]

SliceProps == {"top", "bot", "step", "width"}

SliceCall(op, out) ==
    [op |-> op, self |-> [t |-> "Slice"], key |-> None, val |-> None, exc |-> out.exc, ret |-> out.ret]

\* The properties `Slice.top`, `Slice.bot`, `Slice.step`, `Slice.width`
Top ==
    LET g == _get_inner
    IN  /\ inner' = g.inner
        /\ last' = SliceCall("top", IF g.out.exc = None THEN Return(PyInt(g.out.ret.top)) ELSE g.out)
        /\ UNCHANGED <<parent_width, index>>
        /\ UNCHANGED moduleVars

Bot ==
    LET g == _get_inner
    IN  /\ inner' = g.inner
        /\ last' = SliceCall("bot", IF g.out.exc = None THEN Return(PyInt(g.out.ret.bot)) ELSE g.out)
        /\ UNCHANGED <<parent_width, index>>
        /\ UNCHANGED moduleVars

Step ==
    LET g == _get_inner
    IN  /\ inner' = g.inner
        /\ last' = SliceCall("step", IF g.out.exc = None THEN Return(g.out.ret.step) ELSE g.out)
        /\ UNCHANGED <<parent_width, index>>
        /\ UNCHANGED moduleVars

Width ==
    LET g == _get_inner
    IN  /\ inner' = g.inner
        /\ last' = SliceCall("width", IF g.out.exc = None THEN Return(PyInt(g.out.ret.width)) ELSE g.out)
        /\ UNCHANGED <<parent_width, index>>
        /\ UNCHANGED moduleVars

-----------------------------------------------------------------------------
(* module.py: the values a Module is handed *)

Str(chars) == PyStr(chars)

Mod(i) == [t |-> "Module", id |-> i]
Modules == {Mod(1), Mod(2)}

\* One object of every variant of `ModuleAttr`, by its class and, for a Signal, its `vis`
PortSignal == [t |-> "Signal", vis |-> "PORT"]
InternalSignal == [t |-> "Signal", vis |-> "INTERNAL"]
AnInstance == [t |-> "Instance"]
AnInstanceArray == [t |-> "InstanceArray"]
AnInstanceBundle == [t |-> "InstanceBundle"]
ABundleInstance == [t |-> "BundleInstance"]
AllObjs == {PortSignal, InternalSignal, AnInstance, AnInstanceArray, AnInstanceBundle, ABundleInstance}

\* A value that is no ModuleAttr: a Generator that was never called
AGenerator == [t |-> "Generator"]

\* The objects constructed in this behaviour
Objs == DOMAIN valname

\* Attribute names
K_x == Str(<<"x">>)
K_y == Str(<<"y">>)
K_name == Str(<<"n", "a", "m", "e">>)
K_importpath == Str(<<"_", "i", "m", "p", "o", "r", "t", "p", "a", "t", "h">>)
UserKeys == {K_x, K_y}

K_ports == Str(<<"p", "o", "r", "t", "s">>)
K_signals == Str(<<"s", "i", "g", "n", "a", "l", "s">>)
K_instances == Str(<<"i", "n", "s", "t", "a", "n", "c", "e", "s">>)
K_instarrays == Str(<<"i", "n", "s", "t", "a", "r", "r", "a", "y", "s">>)
K_instbundles == Str(<<"i", "n", "s", "t", "b", "u", "n", "d", "l", "e", "s">>)
K_bundles == Str(<<"b", "u", "n", "d", "l", "e", "s">>)
K_namespace == Str(<<"n", "a", "m", "e", "s", "p", "a", "c", "e">>)
K_add == Str(<<"a", "d", "d">>)
K_get == Str(<<"g", "e", "t">>)

\* The names of the seven mappings `Module.__init__` creates, and of the two methods
ProtectedFields ==
    {K_ports, K_signals, K_instances, K_instarrays, K_instbundles, K_bundles, K_namespace}
MethodNames == {K_add, K_get}

\* `banned` with `namespace` forgotten
banned_WithoutNamespace ==
    {K_ports, K_signals, K_instances, K_instarrays, K_instbundles, K_bundles, K_add, K_get}

\* `banned`, the protected names of `Module.__setattr__`
banned ==
    {K_ports, K_signals, K_instances, K_instarrays, K_instbundles, K_bundles, K_namespace,
     K_add, K_get}

\* `key.startswith("_")`
startswith_underscore(key) == Len(key.s) > 0 /\ key.s[1] = "_"

\* `isinstance(val, cls)`; Instance, InstanceArray and InstanceBundle are the `_Instance` classes
isinstance(val, cls) ==
    IF cls = "_Instance" THEN val.t \in {"Instance", "InstanceArray", "InstanceBundle"}
    ELSE val.t = cls

\* `_is_module_attr`: ModuleAttr = Union[Signal, _Instance, BundleInstance]
_is_module_attr(val) ==
    isinstance(val, "Signal") \/ isinstance(val, "_Instance") \/ isinstance(val, "BundleInstance")

\* `d[k] = v` on the dict `d` of Module `m`
setitem(d, m, k, v) == [d EXCEPT ![m] = (k :> v) @@ @]

\* `dict.get(k, None)`
dictget(d, k) == IF k \in DOMAIN d THEN d[k] ELSE None

-----------------------------------------------------------------------------
(* module.py: `_add`, `Module.add`, `Module.get`, the special methods *)

\* container without the `vis` test: every Signal goes to `signals`
container_IgnoresVisibility(val) ==
    IF isinstance(val, "Signal") THEN "signals"
    ELSE IF isinstance(val, "Instance") THEN "instances"
    ELSE IF isinstance(val, "InstanceArray") THEN "instarrays"
    ELSE IF isinstance(val, "InstanceBundle") THEN "instbundles"
    ELSE IF isinstance(val, "BundleInstance") THEN "bundles"
    ELSE "TypeError"

\* The container the isinstance chain of `_add` sorts `val` into
container(val) ==
    IF isinstance(val, "Signal")
    THEN IF val.vis = "PORT" THEN "ports" ELSE "signals"
    ELSE IF isinstance(val, "Instance") THEN "instances"
    ELSE IF isinstance(val, "InstanceArray") THEN "instarrays"
    ELSE IF isinstance(val, "InstanceBundle") THEN "instbundles"
    ELSE IF isinstance(val, "BundleInstance") THEN "bundles"
    ELSE "TypeError"

\* `_add(module, val)`: `val.name` is what the caller has just left in it
_add(module, val) ==
    LET key == valname'[val]
        into(c, d) == IF container(val) = c THEN setitem(d, module, key, val) ELSE d
    IN  /\ namespace' = setitem(namespace, module, key, val)
        /\ ports' = into("ports", ports)
        /\ signals' = into("signals", signals)
        /\ instances' = into("instances", instances)
        /\ instarrays' = into("instarrays", instarrays)
        /\ instbundles' = into("instbundles", instbundles)
        /\ bundles' = into("bundles", bundles)
        /\ parent_module' = [parent_module EXCEPT ![val] = module]

Call(op, self, key, val, out) ==
    [op |-> op, self |-> self, key |-> key, val |-> val, exc |-> out.exc, ret |-> out.ret]

\* What a call that raises leaves behind: nothing but the exception
Raises(op, self, key, val, e) ==
    /\ last' = Call(op, self, key, val, Raise(e))
    /\ UNCHANGED moduleVars

\* add without the "both set" test: the `name` argument wins
add_NameArgumentWins(self, val, nm) ==
    /\ UNCHANGED <<name, importpath, pymodule, sliceVars>>
    /\ IF ~_is_module_attr(val)
       THEN Raises("add", self, nm, val, "TypeError")
       ELSE IF nm = None /\ valname[val] = None
       THEN Raises("add", self, nm, val, "RuntimeError")
       ELSE /\ valname' = IF nm # None THEN [valname EXCEPT ![val] = nm] ELSE valname
            /\ _add(self, val)
            /\ last' = Call("add", self, nm, val, Return(val))

\* `Module.add(val, name=nm)`
add(self, val, nm) ==
    /\ UNCHANGED <<name, importpath, pymodule, sliceVars>>
    /\ IF ~_is_module_attr(val)
       THEN Raises("add", self, nm, val, "TypeError")
       ELSE IF nm = None /\ valname[val] = None
       THEN Raises("add", self, nm, val, "RuntimeError")
       ELSE IF nm # None /\ valname[val] # None
       THEN Raises("add", self, nm, val, "RuntimeError")
       ELSE /\ valname' = IF nm # None THEN [valname EXCEPT ![val] = nm] ELSE valname
            /\ _add(self, val)
            /\ last' = Call("add", self, nm, val, Return(val))

\* `Module.get(name)`
get(self, nm) == dictget(namespace[self], nm)

\* `Module.__setattr__(key, val)`; `_initialized` is True once `__init__` has returned
__setattr__(self, key, val) ==
    /\ UNCHANGED <<pymodule, sliceVars>>
    /\ IF startswith_underscore(key)
       THEN /\ importpath' = IF key = K_importpath THEN [importpath EXCEPT ![self] = val] ELSE importpath
            /\ last' = Call("setattr", self, key, val, Return(None))
            /\ UNCHANGED <<name, ports, signals, instances, instarrays, instbundles, bundles,
                           namespace, valname, parent_module>>
       ELSE IF key \in banned
       THEN Raises("setattr", self, key, val, "RuntimeError")
       ELSE IF key = K_name
       THEN /\ name' = [name EXCEPT ![self] = val]
            /\ last' = Call("setattr", self, key, val, Return(None))
            /\ UNCHANGED <<ports, signals, instances, instarrays, instbundles, bundles,
                           namespace, importpath, valname, parent_module>>
       ELSE IF ~_is_module_attr(val)
       THEN Raises("setattr", self, key, val, "TypeError")
       ELSE /\ valname' = [valname EXCEPT ![val] = key]
            /\ _add(self, val)
            /\ last' = Call("setattr", self, key, val, Return(None))
            /\ UNCHANGED <<name, importpath>>

\* `d` of Module `m` without the key `k`
delitem(d, m, k) == [d EXCEPT ![m] = [j \in DOMAIN @ \ {k} |-> @[j]]]

\* __delattr__ that deletes the name from namespace
delattr_Deletes(self, nm) ==
    /\ UNCHANGED sliceVars
    /\ namespace' = delitem(namespace, self, nm)
    /\ last' = Call("delattr", self, nm, None, Return(None))
    /\ UNCHANGED <<name, ports, signals, instances, instarrays, instbundles, bundles,
                   importpath, pymodule, valname, parent_module>>

\* `Module.__delattr__(name)`
__delattr__(self, nm) ==
    /\ UNCHANGED sliceVars
    /\ Raises("delattr", self, nm, None, "RuntimeError")

-----------------------------------------------------------------------------
(* module.py: `_qualname`, `Module.__eq__`, `Module.__hash__` *)

PyBool(b) == [t |-> "bool", v |-> b]
NotImplemented == [t |-> "NotImplementedType"]

\* `sep.join(l)` of a list of str, as characters
RECURSIVE join(_, _)
join(sep, l) ==
    IF Len(l) = 0 THEN << >>
    ELSE IF Len(l) = 1 THEN l[1].s
    ELSE l[1].s \o sep \o join(sep, Tail(l))

\* `ord(c)` of the characters module names and paths are written in
ord(c) ==
    CASE c = "." -> 46
      [] c = "A" -> 65
      [] c = "B" -> 66
      [] c = "p" -> 112
      [] c = "q" -> 113

\* `hash(s)` of a str: a deterministic function of its characters (16 bits kept)
RECURSIVE strhash(_)
strhash(chars) ==
    IF Len(chars) = 0 THEN 0
    ELSE (31 * strhash(SubSeq(chars, 1, Len(chars) - 1)) + ord(chars[Len(chars)])) % 65536

hash(v) == IF v.t = "str" THEN PyInt(strhash(v.s)) ELSE PyInt(0)

_qualname(mod) ==
    IF importpath[mod] # None
    THEN Str(join(<<".">>, importpath[mod].l))
    ELSE IF name[mod] = None
    THEN None
    ELSE IF pymodule[mod] = None
    THEN name[mod]
    ELSE Str(pymodule[mod].s \o <<".">> \o name[mod].s)

\* eq by the bare names
eq_ByName(self, other) ==
    IF ~isinstance(other, "Module")
    THEN Return(NotImplemented)
    ELSE IF name[self] = None \/ name[other] = None
    THEN Raise("RuntimeError")
    ELSE Return(PyBool(name[self] = name[other]))

\* The outcome of `self == other`
eq(self, other) ==
    IF ~isinstance(other, "Module")
    THEN Return(NotImplemented)
    ELSE IF name[self] = None \/ name[other] = None
    THEN Raise("RuntimeError")
    ELSE Return(PyBool(_qualname(self) = _qualname(other)))

\* The outcome of `hash(self)`
hash_of(self) ==
    IF name[self] = None
    THEN Raise("RuntimeError")
    ELSE Return(hash(_qualname(self)))

\* `Module.__eq__(other)`
__eq__(self, other) ==
    /\ last' = Call("eq", self, None, other, eq(self, other))
    /\ UNCHANGED <<moduleVars, sliceVars>>

\* `Module.__hash__()`
__hash__(self) ==
    /\ last' = Call("hash", self, None, None, hash_of(self))
    /\ UNCHANGED <<moduleVars, sliceVars>>

-----------------------------------------------------------------------------
(* Construction *)

NoCall == [op |-> "init", self |-> None, key |-> None, val |-> None, exc |-> None, ret |-> None]

\* `Module.__init__` of every Module, before any ModuleAttr object exists
InitModule ==
    /\ ports = [m \in Modules |-> << >>]
    /\ signals = [m \in Modules |-> << >>]
    /\ instances = [m \in Modules |-> << >>]
    /\ instarrays = [m \in Modules |-> << >>]
    /\ instbundles = [m \in Modules |-> << >>]
    /\ bundles = [m \in Modules |-> << >>]
    /\ namespace = [m \in Modules |-> << >>]
    /\ importpath = [m \in Modules |-> None]

\* The indices `Slice(parent, index)` is constructed with
OptInts(n) == {None} \cup {PyInt(i) : i \in (-n)..n}
Indices ==
    {PyInt(i) : i \in (-MaxIndex)..MaxIndex}
    \cup {PySlice(a, b, c) : a \in OptInts(MaxIndex), b \in OptInts(MaxIndex), c \in OptInts(MaxStep)}

\* `Slice.__post_init_post_parse__`: nothing is resolved at construction
InitSlice ==
    /\ parent_width \in 1..MaxWidth
    /\ index \in Indices
    /\ inner = None

-----------------------------------------------------------------------------
(* Slices of one parent, read through their four properties *)

SliceInit ==
    /\ InitModule
    /\ name = [m \in Modules |-> None]
    /\ pymodule = [m \in Modules |-> None]
    /\ valname = << >>
    /\ parent_module = << >>
    /\ InitSlice
    /\ last = NoCall

SliceNext == Top \/ Bot \/ Step \/ Width

SpecSlice == SliceInit /\ [][SliceNext]_vars

-----------------------------------------------------------------------------
(* One Module, populated with the objects constructed for it *)

\* The name a ModuleAttr object is constructed with
InitNames == {None} \cup UserKeys

InitObjs ==
    \E S \in SUBSET AllObjs :
        /\ Cardinality(S) = MaxObjs
        /\ valname \in [S -> InitNames]
        /\ parent_module = [o \in S |-> None]

ModuleInit ==
    /\ InitModule
    /\ name = [m \in Modules |-> None]
    /\ pymodule = [m \in Modules |-> None]
    /\ InitObjs
    /\ parent_width = 1
    /\ index = PyInt(0)
    /\ inner = None
    /\ last = NoCall

\* The values user code hands to a Module
Vals == Objs \cup {AGenerator}

Add == \E val \in Vals, nm \in {None} \cup UserKeys : add(Mod(1), val, nm)

SetAttr == \E key \in UserKeys, val \in Vals : __setattr__(Mod(1), key, val)

ModuleNext == Add \/ SetAttr

Spec == ModuleInit /\ [][ModuleNext]_vars

-----------------------------------------------------------------------------
(* One Module, its protected names assigned to and its attributes deleted *)

\* The objects are constructed unnamed
UnnamedInit ==
    /\ ModuleInit
    /\ \A o \in Objs : valname[o] = None

AddX == \E val \in Vals, nm \in {None, K_x} : add(Mod(1), val, nm)

SetX == \E val \in Vals : __setattr__(Mod(1), K_x, val)

SetProtected ==
    \E key \in ProtectedFields \cup MethodNames, val \in Vals : __setattr__(Mod(1), key, val)

DelAttr ==
    \E nm \in UserKeys \cup ProtectedFields \cup MethodNames \cup {K_name} : __delattr__(Mod(1), nm)

ProtectedNext == AddX \/ SetX \/ SetProtected \/ DelAttr

SpecProtected == UnnamedInit /\ [][ProtectedNext]_vars

-----------------------------------------------------------------------------
(* Two Modules, named, imported, compared and hashed *)

N_A == Str(<<"A">>)
N_B == Str(<<"B">>)
N_pA == Str(<<"p", ".", "A">>)
N_p == Str(<<"p">>)
N_q == Str(<<"q">>)

\* `Module(name=...)`
ModNames == {None, N_A, N_B, N_pA}
\* The Python module `source_info` finds the Module defined in, if any
PyModules == {None, N_p, N_q}
\* The paths an importer sets `_importpath` to
ImportPaths == {None, PyList(<<N_p, N_A>>), PyList(<<N_q, N_B>>)}

EqInit ==
    /\ InitModule
    /\ name \in [Modules -> ModNames]
    /\ pymodule \in [Modules -> PyModules]
    /\ valname = << >>
    /\ parent_module = << >>
    /\ parent_width = 1
    /\ index = PyInt(0)
    /\ inner = None
    /\ last = NoCall

SetName == \E m \in Modules, val \in ModNames : __setattr__(m, K_name, val)

SetImportPath == \E m \in Modules, val \in ImportPaths : __setattr__(m, K_importpath, val)

Eq == \E a \in Modules, b \in Modules \cup {AGenerator} : __eq__(a, b)

Hash == \E a \in Modules : __hash__(a)

EqNext == SetName \/ SetImportPath \/ Eq \/ Hash

SpecEq == EqInit /\ [][EqNext]_vars

-----------------------------------------------------------------------------
(* Claims about the Module container *)

RuntimeError == [t |-> "RuntimeError"]

\* The six sub-collections of Module m, by name
SubCollections(m) ==
    [ports |-> ports[m], signals |-> signals[m], instances |-> instances[m],
     instarrays |-> instarrays[m], instbundles |-> instbundles[m], bundles |-> bundles[m]]

SubNames == {"ports", "signals", "instances", "instarrays", "instbundles", "bundles"}

\* The sub-collections of m that hold the object v, under any key
Holders(m, v) ==
    {c \in SubNames : \E k \in DOMAIN SubCollections(m)[c] : SubCollections(m)[c][k] = v}

\* The last call attached a ModuleAttr to a Module: a successful `add`, or a
\* successful assignment to a key that is neither internal nor `name`
Attached(call) ==
    /\ call.op \in {"add", "setattr"}
    /\ call.exc = None
    /\ _is_module_attr(call.val)
    /\ call.op = "setattr" => (~startswith_underscore(call.key) /\ call.key # K_name)

\* C1: namespace is the bijective union of the six sub-collections: every
\* entry of a sub-collection is the same entry of namespace, every entry of
\* namespace is held by a sub-collection under its key, and no key is held
\* by two sub-collections.  Re-binding a name to another variant breaks it.
C1_NamespaceIsBijectiveUnion ==
    \A m \in Modules :
        LET sub == SubCollections(m)
            ns == namespace[m]
        IN  /\ \A c \in SubNames : \A k \in DOMAIN sub[c] :
                    k \in DOMAIN ns /\ ns[k] = sub[c][k]
            /\ \A k \in DOMAIN ns : \E c \in SubNames :
                    k \in DOMAIN sub[c] /\ sub[c][k] = ns[k]
            /\ \A c1, c2 \in SubNames :
                    c1 # c2 => DOMAIN sub[c1] \cap DOMAIN sub[c2] = {}

\* C2: immediately after a successful module.add(v) or module.n = v of a
\* ModuleAttr v with resolved name n, module.get(n) is v, namespace[n] is v,
\* and v is held by exactly one sub-collection, the one of the routing
\* table: PORT Signal -> ports, other Signal -> signals, Instance ->
\* instances, InstanceArray -> instarrays, InstanceBundle -> instbundles,
\* BundleInstance -> bundles.
C2_AttachedAndRouted ==
    Attached(last) =>
        LET m == last.self
            v == last.val
            n == IF last.key # None THEN last.key ELSE valname[v]
            routed == CASE v.t = "Signal" /\ v.vis = "PORT" -> "ports"
                        [] v.t = "Signal" /\ v.vis # "PORT" -> "signals"
                        [] v.t = "Instance" -> "instances"
                        [] v.t = "InstanceArray" -> "instarrays"
                        [] v.t = "InstanceBundle" -> "instbundles"
                        [] v.t = "BundleInstance" -> "bundles"
        IN  /\ get(m, n) = v
            /\ n \in DOMAIN namespace[m]
            /\ namespace[m][n] = v
            /\ n \in DOMAIN SubCollections(m)[routed]
            /\ SubCollections(m)[routed][n] = v
            /\ Holders(m, v) = {routed}

\* C2 happens: a PORT Signal was assigned to x over another object bound to x before
C2_Witness ==
    /\ last.op = "setattr"
    /\ last.exc = None
    /\ last.key = K_x
    /\ last.val = PortSignal
    /\ ports[Mod(1)][K_x] = PortSignal
    /\ \E c \in SubNames \ {"ports"} : K_x \in DOMAIN SubCollections(Mod(1))[c]

\* C3: Module.add(v, name=a) of a ModuleAttr v raises the naming error when
\* v.name and a are both null or both non-null, and then changes neither
\* v.name nor namespace nor any sub-collection; with exactly one of them set
\* it binds v under that name and returns v itself.
C3_AddNaming ==
    [][(last'.op = "add" /\ _is_module_attr(last'.val)) =>
        LET m == last'.self
            v == last'.val
            a == last'.key
        IN  IF (a = None) = (valname[v] = None)
            THEN /\ last'.exc = RuntimeError
                 /\ UNCHANGED <<valname, namespace, ports, signals, instances,
                                instarrays, instbundles, bundles>>
            ELSE LET n == IF a # None THEN a ELSE valname[v]
                 IN  /\ last'.exc = None
                     /\ last'.ret = v
                     /\ valname'[v] = n
                     /\ n \in DOMAIN namespace'[m]
                     /\ namespace'[m][n] = v
      ]_vars

\* C3 happens: add(v, name=x) of an object already named y has raised
C3_Witness ==
    /\ last.op = "add"
    /\ last.key = K_x
    /\ last.val \in Objs
    /\ valname[last.val] = K_y
    /\ last.exc = RuntimeError

\* C4: module.x = v of a ModuleAttr v, x neither protected nor internal,
\* raises whenever v already carries a non-null name other than x, and is
\* accepted only when v.name is unset or equal to x.  The code renames v.
C4_AssignRejectsOtherName ==
    [][(/\ last'.op = "setattr"
        /\ _is_module_attr(last'.val)
        /\ last'.key \notin banned
        /\ ~startswith_underscore(last'.key)
        /\ last'.key # K_name) =>
        LET v == last'.val
            x == last'.key
        IN  IF valname[v] \in {None, x}
            THEN last'.exc = None
            ELSE last'.exc # None /\ UNCHANGED <<valname, namespace>>
      ]_vars

-----------------------------------------------------------------------------
(* Claims about protected names and deletion, under SpecProtected *)

\* C5: assignment to any of ports, signals, instances, instarrays,
\* instbundles, bundles and namespace is rejected whatever the value, a
\* ModuleAttr or not, and leaves namespace, the six sub-collections and the
\* rest of the Module as they were: the seven mappings are only ever written
\* through, never replaced.
C5_ProtectedRejected ==
    [][(last'.op = "setattr" /\ last'.key \in ProtectedFields) =>
        /\ last'.exc = RuntimeError
        /\ UNCHANGED <<namespace, ports, signals, instances, instarrays, instbundles, bundles>>
        /\ UNCHANGED <<name, importpath, valname, parent_module>>
      ]_vars

\* C5 happens: a ModuleAttr assigned to `namespace` of a populated Module was rejected
C5_Witness ==
    /\ last.op = "setattr"
    /\ last.key = K_namespace
    /\ last.val \in Objs
    /\ last.exc = RuntimeError
    /\ K_x \in DOMAIN namespace[Mod(1)]

\* C6: deleting an attribute raises for every name, bound or not, and
\* changes nothing; so over adds, assignments and deletions a name bound in
\* namespace stays bound in every later state.
C6_NoDeletion ==
    [][/\ last'.op = "delattr" =>
            /\ last'.exc = RuntimeError
            /\ UNCHANGED moduleVars
       /\ \A m \in Modules : DOMAIN namespace[m] \subseteq DOMAIN namespace'[m]
      ]_vars

\* C6 happens: deleting the bound name x has raised, and x is still bound
C6_Witness ==
    /\ last.op = "delattr"
    /\ last.key = K_x
    /\ last.exc = RuntimeError
    /\ K_x \in DOMAIN namespace[Mod(1)]
    /\ namespace[Mod(1)][K_x] \in Objs

-----------------------------------------------------------------------------
(* Claims about equality and hashing, under SpecEq *)

\* The qualified name as the claim gives it
QualifiedName(m) ==
    IF importpath[m] # None THEN Str(join(<<".">>, importpath[m].l))
    ELSE IF pymodule[m] = None THEN name[m]
    ELSE Str(pymodule[m].s \o <<".">> \o name[m].s)

\* C7: equality and hashing of Modules are decided by the qualified name
\* alone: named Modules compare equal exactly when their qualified names are
\* equal, and then hash alike; equality or hashing with a Module whose name
\* is null raises.  The qualified name is the dot-joined import path when
\* one is set, else the bare name when there is no defining Python module,
\* else that module's name, a dot and the name.
C7_EqualityByQualifiedName ==
    /\ \A a, b \in Modules :
        IF name[a] = None \/ name[b] = None
        THEN eq(a, b).exc = RuntimeError
        ELSE /\ _qualname(a) = QualifiedName(a)
             /\ eq(a, b) = Return(PyBool(QualifiedName(a) = QualifiedName(b)))
             /\ QualifiedName(a) = QualifiedName(b) => hash_of(a) = hash_of(b)
    /\ \A a \in Modules :
        IF name[a] = None
        THEN hash_of(a).exc = RuntimeError
        ELSE hash_of(a).exc = None /\ hash_of(a).ret.t = "int"
    /\ (last.op = "eq" /\ isinstance(last.val, "Module")) =>
        IF name[last.self] = None \/ name[last.val] = None
        THEN last.exc = RuntimeError
        ELSE last.exc = None
             /\ last.ret = PyBool(QualifiedName(last.self) = QualifiedName(last.val))
    /\ last.op = "hash" =>
        IF name[last.self] = None
        THEN last.exc = RuntimeError
        ELSE last.exc = None /\ last.ret = hash(QualifiedName(last.self))

\* C7 happens: two Modules of different names and one import path compared equal
C7_Witness ==
    /\ last.op = "eq"
    /\ last.self = Mod(1)
    /\ last.val = Mod(2)
    /\ name[Mod(1)] = N_A
    /\ name[Mod(2)] = N_B
    /\ importpath[Mod(1)] = PyList(<<N_p, N_A>>)
    /\ importpath[Mod(2)] = PyList(<<N_p, N_A>>)
    /\ last.ret = PyBool(TRUE)
    /\ hash_of(Mod(1)) = hash_of(Mod(2))

-----------------------------------------------------------------------------
(* Claims about slice resolution, under SpecSlice *)

ValueError == [t |-> "ValueError"]

\* A step in which a property is read while the Slice is still unresolved
Resolving == inner = None /\ last'.op \in SliceProps

\* C8: resolving an integer index i over a parent of width W normalizes a
\* negative i to i + W, raises the out-of-bounds ValueError exactly when the
\* normalized index is >= W, and otherwise caches top = i' + 1, bot = i',
\* no step and width 1 for the normalized index i'.
C8_IntegerIndex ==
    [][(Resolving /\ index.t = "int") =>
        LET W == parent_width
            i == index.v
            n == IF i < 0 THEN i + W ELSE i
        IN  IF n >= W
            THEN last'.exc = ValueError /\ inner' = None
            ELSE last'.exc = None /\ inner' = [top |-> n + 1, bot |-> n, step |-> None, width |-> 1]
      ]_vars

\* C8 happens: W = 8 and index -1 have resolved to top 8, bot 7, width 1
C8_Witness ==
    /\ parent_width = 8
    /\ index = PyInt(-1)
    /\ last.op = "top"
    /\ last.ret = PyInt(8)
    /\ inner = [top |-> 8, bot |-> 7, step |-> None, width |-> 1]

\* C9: resolving a range index (start, stop, step) raises the zero-step
\* ValueError when step is 0, and otherwise caches the top and bot of the
\* stated rule: for a negative step, top from start (+1) and bot from stop
\* (+1), bot then raised by (top - bot) mod |step|; for a positive or absent
\* step, top from stop and bot from start, top then lowered by
\* (top - bot) mod step; after which top - bot is a multiple of |step|.
C9_RangeIndex ==
    [][(Resolving /\ index.t = "slice") =>
        LET W == parent_width
            absent(x) == x = None
            step == IF absent(index.step) THEN 1 ELSE index.step.v
            mag == IF step < 0 THEN -step ELSE step
            negTop == IF absent(index.start) THEN W
                      ELSE IF index.start.v >= 0 THEN index.start.v + 1
                      ELSE W + index.start.v + 1
            negBot == IF absent(index.stop) THEN 0
                      ELSE IF index.stop.v >= 0 THEN index.stop.v + 1
                      ELSE W + index.stop.v + 1
            posTop == IF absent(index.stop) THEN W
                      ELSE IF index.stop.v >= 0 THEN index.stop.v
                      ELSE W + index.stop.v
            posBot == IF absent(index.start) THEN 0
                      ELSE IF index.start.v >= 0 THEN index.start.v
                      ELSE W + index.start.v
        IN  IF step = 0
            THEN last'.exc = ValueError /\ inner' = None
            ELSE /\ last'.exc = None
                 /\ inner' # None
                 /\ IF step < 0
                    THEN /\ inner'.top = negTop
                         /\ inner'.bot = negBot + ((negTop - negBot) % mag)
                    ELSE /\ inner'.top = posTop - ((posTop - posBot) % mag)
                         /\ inner'.bot = posBot
                 /\ (inner'.top - inner'.bot) % mag = 0
                 /\ inner'.step = index.step
      ]_vars

\* C9 happens: W = 8 and slice(6, 2, -1) have resolved to top 7, bot 3
C9_Witness ==
    /\ parent_width = 8
    /\ index = PySlice(PyInt(6), PyInt(2), PyInt(-1))
    /\ last.op = "bot"
    /\ last.ret = PyInt(3)
    /\ inner # None
    /\ inner.top = 7
    /\ inner.bot = 3

\* C10: every range index with a non-zero step that resolves has a width
\* equal to (top - bot) / |step|, an exact and non-negative integer, for
\* negative steps as for positive ones.  Stated on the spans that are not
\* reversed (top >= bot), where (top - bot) / |step| is itself non-negative:
\* the code divides by the signed step, and fails it already there.
C10_WidthIsSpanOverStepMagnitude ==
    [][(Resolving /\ index.t = "slice" /\ inner' # None /\ inner'.top >= inner'.bot) =>
        LET step == IF index.step = None THEN 1 ELSE index.step.v
            mag == IF step < 0 THEN -step ELSE step
        IN  /\ inner'.width * mag = inner'.top - inner'.bot
            /\ inner'.width >= 0
      ]_vars

-----------------------------------------------------------------------------
(* One Slice, read again and again while its parent is resized *)

\* User code assigns `parent.width`; the Slice holds the parent by reference
SetParentWidth ==
    \E w \in 1..MaxWidth :
        /\ w # parent_width
        /\ parent_width' = w
        /\ last' = [op |-> "setwidth", self |-> [t |-> "Signal"], key |-> None,
                    val |-> PyInt(w), exc |-> None, ret |-> None]
        /\ UNCHANGED <<index, inner>>
        /\ UNCHANGED moduleVars

\* The indices of the resized parent's Slice: every integer index, and the
\* ranges whose start, stop and step are small
CachedIndices ==
    {PyInt(i) : i \in (-MaxIndex)..MaxIndex}
    \cup {PySlice(a, b, c) : a \in OptInts(MaxStep), b \in OptInts(MaxStep), c \in OptInts(MaxStep)}

CachedInit ==
    /\ SliceInit
    /\ index \in CachedIndices

CachedNext == Top \/ Bot \/ Step \/ Width \/ SetParentWidth

SpecCached == CachedInit /\ [][CachedNext]_vars

-----------------------------------------------------------------------------
(* Claims about the Slice's cache *)

\* What property `op` reads out of a SliceInner
Field(op, si) ==
    IF op = "top" THEN PyInt(si.top)
    ELSE IF op = "bot" THEN PyInt(si.bot)
    ELSE IF op = "step" THEN si.step
    ELSE PyInt(si.width)

\* C11, as stated: the first access of top, bot, step or width moves the Slice
\* to Resolved, so that no Slice is Unresolved after an access.
C11_FirstAccessResolves ==
    [][last'.op \in SliceProps => inner' # None]_vars

\* C11, amended: a Slice is Unresolved from construction until the first
\* access of top, bot, step or width that resolves without error, which moves
\* it to Resolved and caches what it resolved against the parent's width at
\* that moment; an access that raises leaves it Unresolved.  From then on the
\* cached SliceInner never changes, whatever is accessed and however the
\* parent's width changes, and every access returns the cached field.
C11_ResolvedOnceAndForAll ==
    [][ /\ inner # None => inner' = inner
        /\ (inner = None /\ inner' # None) =>
              /\ last'.op \in SliceProps
              /\ _slice_inner(parent_width, index) = Return(inner')
        /\ (last'.op \in SliceProps /\ last'.exc = None) =>
              /\ inner' # None
              /\ last'.ret = Field(last'.op, inner')
        /\ (last'.op \in SliceProps /\ last'.exc # None) =>
              /\ inner = None
              /\ inner' = None
              /\ _slice_inner(parent_width, index).exc = last'.exc
      ]_vars

\* The last bit of a parent of width 8 was resolved; the parent has shrunk to
\* width 3 and `top` still answers 8
C11_Witness ==
    /\ index = PyInt(-1)
    /\ parent_width = 3
    /\ inner = SliceInner(8, 7, None, 1)
    /\ last.op = "top"
    /\ last.ret = PyInt(8)

-----------------------------------------------------------------------------
(* module.py: ExternalModule and ExternalModuleCall *)

\* The classes user code defines and passes: classes are named by strings,
\* and a value v is an instance of the class v.t
ParamClasses == {"HasNoParams", "MyParams"}
Classes == ParamClasses \cup {"dict", "OrderedDict", "typing.Dict", "int", "NoneType"}

\* The base class of a class (`OrderedDict(dict)`; everything else derives from `object`)
base(cls) == IF cls = "OrderedDict" THEN "dict" ELSE "object"

\* `type(obj)`
type(obj) == obj.t

RECURSIVE issubclass(_, _)
issubclass(cls, of) ==
    IF cls = of THEN TRUE
    ELSE IF cls = "object" THEN FALSE
    ELSE issubclass(base(cls), of)

\* The test by the exact type, `type(obj) is cls`
instancecheck_ExactType(obj, cls) == type(obj) = cls

\* `isinstance(obj, cls)` for a class that has subclasses; `typing.Dict` checks
\* instances against its origin, `dict`
instancecheck(obj, cls) ==
    IF cls = "typing.Dict" THEN issubclass(type(obj), "dict")
    ELSE issubclass(type(obj), cls)

\* `isparamclass`: whether a class was made by `@paramclass`
isparamclass(cls) == cls \in ParamClasses

\* A Signal as an ExternalModule holds it in `port_list`
Port(nm, vis) == [t |-> "Signal", name |-> nm, vis |-> vis]

\* `not p.name`
falsy(nm) == nm = None \/ nm.s = << >>

\* `ExternalModule(name, port_list, paramtype)`: `__post_init__`, then `__post_init_post_parse__`
ExternalModule(nm, port_list, paramtype) ==
    IF ~isparamclass(paramtype) /\ paramtype \notin {"dict", "typing.Dict"}
    THEN Raise("ValueError")
    ELSE IF \E i \in 1..Len(port_list) : falsy(port_list[i].name) \/ port_list[i].vis # "PORT"
    THEN Raise("ValueError")
    ELSE Return([t |-> "ExternalModule", name |-> nm, port_list |-> port_list,
                 paramtype |-> paramtype])

\* `ExternalModuleCall(module, params)`: `__post_init_post_parse__`
ExternalModuleCall(module, params) ==
    IF ~instancecheck(params, module.paramtype)
    THEN Raise("TypeError")
    ELSE Return([t |-> "ExternalModuleCall", module |-> module, params |-> params])

-----------------------------------------------------------------------------
(* ExternalModules constructed, and called with parameter values *)

ExternalNames == {N_A, N_B}

PortLists ==
    { << >>,
      <<Port(K_x, "PORT")>>,
      <<Port(K_x, "PORT"), Port(K_y, "PORT")>>,
      <<Port(None, "PORT")>>,
      <<Port(K_x, "PORT"), Port(Str(<< >>), "PORT")>>,
      <<Port(K_x, "INTERNAL")>> }

\* The ExternalModules whose construction returns
ExternalModules ==
    {ExternalModule(nm, pl, pt).ret : nm \in ExternalNames, pl \in PortLists, pt \in Classes}
        \ {None}

\* The parameter values user code passes: one instance of every class
ParamValues == {[t |-> cls] : cls \in Classes \ {"typing.Dict"}}

ExternalInit ==
    /\ InitModule
    /\ name = [m \in Modules |-> None]
    /\ pymodule = [m \in Modules |-> None]
    /\ valname = << >>
    /\ parent_module = << >>
    /\ parent_width = 1
    /\ index = PyInt(0)
    /\ inner = None
    /\ last = NoCall

NewExternalModule ==
    \E nm \in ExternalNames, pl \in PortLists, pt \in Classes :
        /\ last' = Call("ExternalModule", None, nm, [port_list |-> pl, paramtype |-> pt],
                        ExternalModule(nm, pl, pt))
        /\ UNCHANGED <<moduleVars, sliceVars>>

NewExternalModuleCall ==
    \E module \in ExternalModules, params \in ParamValues :
        /\ last' = Call("ExternalModuleCall", module, None, params,
                        ExternalModuleCall(module, params))
        /\ UNCHANGED <<moduleVars, sliceVars>>

ExternalNext == NewExternalModule \/ NewExternalModuleCall

SpecExternal == ExternalInit /\ [][ExternalNext]_vars

-----------------------------------------------------------------------------
(* Claims about ExternalModuleCall *)

TypeError == [t |-> "TypeError"]

\* C12, as stated: constructing an ExternalModuleCall(module, params) succeeds
\* when the type of params is exactly module.paramtype, and fails with
\* TypeError for a value of any other type, a subtype included.
C12_ExactParamType ==
    last.op = "ExternalModuleCall" =>
        IF last.val.t = last.self.paramtype
        THEN last.exc = None
        ELSE last.exc = TypeError

\* The types whose values an ExternalModule of the given paramtype accepts
Accepted(paramtype) ==
    IF paramtype \in {"dict", "typing.Dict"} THEN {"dict", "OrderedDict"}
    ELSE {paramtype}

\* C12, amended: constructing an ExternalModuleCall(module, params) fails with
\* TypeError whenever params is not an instance of module.paramtype, and
\* succeeds, pairing the module with params, when the type of params is the
\* declared type or a subtype of it.
C12_InstanceOfParamType ==
    last.op = "ExternalModuleCall" =>
        IF last.val.t \in Accepted(last.self.paramtype)
        THEN /\ last.exc = None
             /\ last.ret = [t |-> "ExternalModuleCall", module |-> last.self, params |-> last.val]
        ELSE /\ last.exc = TypeError
             /\ last.ret = None

\* An OrderedDict was accepted as the parameters of an ExternalModule declared with `dict`
C12_Witness ==
    /\ last.op = "ExternalModuleCall"
    /\ last.self.paramtype = "dict"
    /\ last.val.t = "OrderedDict"
    /\ last.exc = None

-----------------------------------------------------------------------------
(* Claims about the bits a resolved Slice selects, under SpecSlice *)

\* C13: every Slice that resolves without error over a parent of width W
\* selects only bits the parent has: its cached bounds satisfy
\* 0 <= bot <= top <= W, for integer indices and for range indices alike.
C13_BoundsWithinParent ==
    inner # None =>
        /\ 0 <= inner.bot
        /\ inner.bot <= inner.top
        /\ inner.top <= parent_width

-----------------------------------------------------------------------------
(* Claims about the names of a Module's entries, under Spec *)

\* C14: after any sequence of add and attribute-assignment operations, every
\* entry k -> v of a Module's namespace and of its sub-collections satisfies
\* v.name = k.
C14_EntriesNamedByKey ==
    \A m \in Modules :
        /\ \A k \in DOMAIN namespace[m] : valname[namespace[m][k]] = k
        /\ \A c \in SubNames :
              \A k \in DOMAIN SubCollections(m)[c] : valname[SubCollections(m)[c][k]] = k

=============================================================================
